---- MODULE Spec2Model ----
(***************************************************************************)
(* Model of the Zendesk monthly export controller.                         *)
(*                                                                         *)
(* The repository holds near-duplicate variants of one controller:         *)
(*   "export"  src/export.js            run()  (in-process loop)           *)
(*   "batch"   src/unnamed/part_000     run()  (lines 517-717)             *)
(*   "chain"   src/unnamed/part_000     handler (lines 185-390)            *)
(*   "single"  src/unnamed/part_000     handler (lines 6-137)              *)
(* One behaviour runs one variant against its durable store: the State,    *)
(* Tickets_Raw and Logs regions of the system sheet (export, batch,        *)
(* chain) or /tmp/checkpoint.json and /tmp/tickets.json (single).          *)
(* Every await of the code is one step that either succeeds or throws.     *)
(*                                                                         *)
(* Specifications:                                                         *)
(*   Spec        invocations for one month, one after another              *)
(*   SpecMonth   the same, each invocation for any month identifier        *)
(*   SpecDigest  one invocation over every comment list                    *)
(*   SpecFair    Spec under weak fairness, for termination                 *)
(***************************************************************************)
EXTENDS Integers, Sequences, FiniteSets, TLC

\* ------------------------------------------------------------------ bounds
FeedLen == 3
PageSize == 2
MaxRuns == 2
MaxFaults == 1
MaxComments == 2

\* --------------------------------------------------------------- constants
\* The export window [WStart, WEnd), scaled to small integers.
WStart == 1
WEnd == 5
\* JavaScript undefined / NaN held in a numeric local.
Undef == -1
\* State!A2:B2 is empty (or /tmp/checkpoint.json does not exist).
Absent == -2
\* State!A2 holds "checkpoint" and B2 is empty.
KeyOnly == -3

\* EXPORT_MONTH / ?month= as its year and month parts; month 13 stands for
\* every identifier that is not a calendar month ("2025-13", "december").
DefaultMonth == [year |-> 2025, month |-> 12]
FollowingMonth == [year |-> 2026, month |-> 1]
BadMonth == [year |-> 2025, month |-> 13]
Months == {DefaultMonth, FollowingMonth, BadMonth}
NoMonth == [year |-> 0, month |-> 0]

Variants == {"export", "batch", "chain", "single"}
Procs == {1, 2}
Header == "HEADER"

VARIABLES
    variant,   \* which variant of the controller this behaviour runs
    feed,      \* the upstream tickets, in feed order
    cpStore,   \* the committed checkpoint: Absent, KeyOnly or a cursor
    cpOwner,   \* history: the month of the invocation that committed it
    staging,   \* Tickets_Raw rows (or the tickets of /tmp/tickets.json)
    logs,      \* Logs rows
    reports,   \* the report artifacts created so far
    mails,     \* notifications sent
    inv,       \* per invocation: its position and locals
    appended,  \* history: rows appended to staging since it was last cleared
    everAppended, \* history: rows appended since the last finished export
    runs,      \* invocations started
    faults     \* failures injected

vars == <<variant, feed, cpStore, cpOwner, staging, logs, reports, mails, inv,
          appended, everAppended, runs, faults>>

\* ------------------------------------------------------------ JS helpers
\* a >= b on JavaScript numbers: false when either is undefined or NaN.
GE(a, b) == a # Undef /\ b # Undef /\ a >= b
LT(a, b) == a # Undef /\ b # Undef /\ a < b

\* getMonthRange: the epoch seconds of the first instant of the month and of
\* the month after it; NaN for both when the Date is invalid. One month is
\* WEnd - WStart long and DefaultMonth starts at WStart.
getMonthRange(monthStr) ==
    IF monthStr.month \in 1..12
    THEN LET k == (monthStr.year - DefaultMonth.year) * 12
                  + (monthStr.month - DefaultMonth.month)
             start == WStart + k * (WEnd - WStart)
         IN  [startTimestamp |-> start,
              endTimestamp   |-> start + (WEnd - WStart)]
    ELSE [startTimestamp |-> Undef, endTimestamp |-> Undef]

DefaultWin == getMonthRange(DefaultMonth)

Take(s, n) == IF Len(s) <= n THEN s ELSE SubSeq(s, 1, n)

\* ---------------------------------------------------------------- upstream
\* A comment of tickets/{id}/comments.json: public flag, author_id and body.
UserIds == {1, 2}
Bodies == {"a", "b"}
Comments == [public : BOOLEAN, author : UserIds, body : Bodies]

CommentLists ==
    UNION {[1..n -> Comments] : n \in 0..MaxComments}

\* The comment list every ticket carries when the comments are not what is
\* examined: one public comment by user 1, then a private one by user 2.
StockComments ==
    <<[public |-> TRUE, author |-> 1, body |-> "a"],
      [public |-> FALSE, author |-> 2, body |-> "b"]>>

\* requester_id of ticket i.
RequesterOf(i) == 1 + (i % 2)

CreatedChoices == {WStart - 1, WStart, WEnd - 1, WEnd}

\* The feed starts one, two or three positions after the window start, so
\* that it ends below, at or past the window end.
MaxShift == WEnd - WStart - 1

\* Ticket i sits at feed position sh + i (its last update), never before its
\* creation; the feed is in ascending order of position and of created_at.
FeedsAt(sh) ==
    { [i \in 1..FeedLen |->
          [id |-> i, created |-> c[i], pos |-> sh + i,
           requester |-> RequesterOf(i), comments |-> StockComments]] :
        c \in {d \in [1..FeedLen -> CreatedChoices] :
                 /\ \A i \in 1..FeedLen : d[i] <= sh + i
                 /\ \A i \in 1..(FeedLen - 1) : d[i] <= d[i + 1]} }

Feeds == UNION {FeedsAt(sh) : sh \in 1..MaxShift}

\* GET incremental/tickets.json?start_time=cursor : the next PageSize tickets
\* after the cursor, the feed position of the last one, and end_of_stream.
FetchPage(cursor) ==
    LET avail == SelectSeq(feed, LAMBDA t : t.pos > cursor)
        recs  == Take(avail, PageSize)
    IN  [tickets  |-> recs,
         end_time |-> IF recs = <<>> THEN cursor ELSE recs[Len(recs)].pos,
         eos      |-> Len(avail) <= PageSize]

\* ------------------------------------------------------- window filtering
\* Mutant: the window end is compared with <=.
InWindowInclusive(w, t) ==
    GE(t.created, w.startTimestamp) /\ GE(w.endTimestamp, t.created)

\* w carries startTimestamp and endTimestamp.
InWindow(w, t) ==
    GE(t.created, w.startTimestamp) /\ LT(t.created, w.endTimestamp)

\* The single-shot handler keeps every ticket of the page.
AdmitSingle(t) == TRUE

Admit(v, w, t) == IF v = "single" THEN AdmitSingle(t) ELSE InWindow(w, t)

\* Mutant: the comments are not filtered by their public flag.
AllComments(comments) == comments

\* (commentsData.comments || []).filter(c => c.public)
PublicComments(comments) == SelectSeq(comments, LAMBDA c : c.public)

\* One entry of the digest: `${role} ${c.body}`.
FormatComment(requester, c) ==
    [role |-> IF c.author = requester THEN "Requester" ELSE "Agent",
     body |-> c.body]

\* publicComments.map(...).join(separator): the entries in order.
formattedComments(t) ==
    LET pub == PublicComments(t.comments)
    IN  [k \in 1..Len(pub) |-> FormatComment(t.requester, pub[k])]

\* The single-shot handler stores the ticket as it came, without a digest.
RawTicket(t) == [id |-> t.id, created |-> t.created, comments |-> <<>>]

Row(t) ==
    [id |-> t.id, created |-> t.created, comments |-> formattedComments(t)]

AdmittedRows(v, w, tickets) ==
    LET kept == SelectSeq(tickets, LAMBDA t : Admit(v, w, t))
    IN  [i \in 1..Len(kept) |->
            IF v = "single" THEN RawTicket(kept[i]) ELSE Row(kept[i])]

LastAdmitted(v, w, tickets, prev) ==
    LET kept == SelectSeq(tickets, LAMBDA t : Admit(v, w, t))
    IN  IF kept = <<>> THEN prev ELSE kept[Len(kept)].id

\* ------------------------------------------------------------ invocations
IdleInv ==
    [pc |-> "idle", monthStr |-> NoMonth, startTimestamp |-> Undef,
     endTimestamp |-> Undef, cursor |-> Undef, tickets |-> <<>>, newCp |-> Undef,
     eos |-> FALSE, rows |-> <<>>, pages |-> 0, fetched |-> 0, saved |-> 0, lastId |-> 0,
     exportId |-> 0, raw |-> <<>>, failedAt |-> "none", exit |-> "none",
     http |-> 0,
     startCp |-> Absent, seed |-> Undef, pageCp |-> Absent,
     finCp |-> Absent, finStaging |-> <<>>, prevFail |-> "none",
     startOwner |-> NoMonth]

HasLog(v) == v \in {"export", "batch"}

\* The handlers answer an HTTP request; the scheduled runs do not.
IsHandler(v) == v \in {"chain", "single"}

\* Statuses of a feed response that is not ok.
ErrStatuses == {401, 503}

\* res.status(...) of a handler that ends with outcome e; 0 for a run.
HttpStatus(v, e) ==
    IF ~IsHandler(v) THEN 0
    ELSE IF e = "ok" THEN 200
    ELSE 500

Init ==
    /\ variant \in Variants
    /\ feed \in Feeds
    /\ cpStore = Absent
    /\ cpOwner = NoMonth
    /\ staging = <<>>
    /\ logs = <<>>
    /\ reports = <<>>
    /\ mails = 0
    /\ inv = [p \in Procs |-> IdleInv]
    /\ appended = <<>>
    /\ everAppended = <<>>
    /\ runs = 0
    /\ faults = 0

Set(p, r) == inv' = [inv EXCEPT ![p] = r]

\* An awaited call rejects: control moves to the entry point's catch.
Throw(p, step) ==
    /\ faults < MaxFaults
    /\ faults' = faults + 1
    /\ Set(p, [inv[p] EXCEPT !.pc = "catch", !.failedAt = step])

\* The locals of an invocation for month m when it reaches the state read.
Entered(m, prev) ==
    [IdleInv EXCEPT !.pc = "read",
                    !.monthStr = m,
                    !.startTimestamp = getMonthRange(m).startTimestamp,
                    !.endTimestamp = getMonthRange(m).endTimestamp,
                    !.startCp = cpStore,
                    !.startOwner = cpOwner,
                    !.prevFail = prev]

\* The entry point is invoked for month m (scheduler or HTTP request).
Invoke(p, m) ==
    /\ inv[p].pc = "idle"
    /\ runs < MaxRuns
    /\ runs' = runs + 1
    /\ Set(p, Entered(m, inv[p].failedAt))
    /\ UNCHANGED <<variant, feed, cpStore, cpOwner, staging, logs, reports, mails,
                   appended, everAppended, faults>>

Start(p) == Invoke(p, DefaultMonth)

\* single-shot handler: the Zendesk credentials are not configured.
MissingCredentials(p) ==
    /\ variant = "single"
    /\ inv[p].pc = "idle"
    /\ runs < MaxRuns
    /\ runs' = runs + 1
    /\ Set(p, [IdleInv EXCEPT !.exit = "nocreds", !.http = 500])
    /\ UNCHANGED <<variant, feed, cpStore, cpOwner, staging, logs, reports,
                   mails, appended, everAppended, faults>>

\* The month is whatever the environment or the query string holds.
StartMonth(p) == \E m \in Months : Invoke(p, m)

\* The starting cursor read from a stored checkpoint value; the single-shot
\* handler starts at a fixed instant, the others at the window start.
SeedCursor(v, start, stored) ==
    IF stored = Absent THEN (IF v = "single" THEN WStart ELSE start)
    ELSE IF stored = KeyOnly THEN (IF v = "batch" THEN start ELSE Undef)
    ELSE stored

IsFreshRun(v, stored) == v = "batch" /\ stored \in {Absent, KeyOnly}

ReadState(p) ==
    /\ inv[p].pc = "read"
    /\ \/ /\ Set(p, [inv[p] EXCEPT
                       !.cursor = SeedCursor(variant, inv[p].startTimestamp,
                                             cpStore),
                       !.seed = SeedCursor(variant, inv[p].startTimestamp,
                                           cpStore),
                       !.pc = IF IsFreshRun(variant, cpStore)
                              THEN "resetLogs" ELSE "fetch"])
          /\ UNCHANGED faults
       \/ Throw(p, "read")
    /\ UNCHANGED <<variant, feed, cpStore, cpOwner, staging, logs, reports, mails,
                   appended, everAppended, runs>>

\* batch only: a fresh run clears Logs!A:G, then Tickets_Raw!A:F.
ResetLogs(p) ==
    /\ inv[p].pc = "resetLogs"
    /\ \/ /\ logs' = <<>>
          /\ Set(p, [inv[p] EXCEPT !.pc = "resetRaw"])
          /\ UNCHANGED faults
       \/ Throw(p, "resetLogs") /\ UNCHANGED logs
    /\ UNCHANGED <<variant, feed, cpStore, cpOwner, staging, reports, mails,
                   appended, everAppended, runs>>

ResetRaw(p) ==
    /\ inv[p].pc = "resetRaw"
    /\ \/ /\ staging' = <<>>
          /\ appended' = <<>>
          /\ Set(p, [inv[p] EXCEPT !.pc = "fetch"])
          /\ UNCHANGED faults
       \/ Throw(p, "resetRaw") /\ UNCHANGED <<staging, appended>>
    /\ UNCHANGED <<variant, feed, cpStore, cpOwner, logs, reports, mails, runs,
                   everAppended>>

\* The invocation ends with outcome e: its locals are gone; what stays is
\* history the properties read.
Finish(p, e) ==
    Set(p, [IdleInv EXCEPT !.exit = e,
                           !.http = HttpStatus(variant, e),
                           !.failedAt = inv[p].failedAt,
                           !.pageCp = inv[p].pageCp,
                           !.finCp = inv[p].finCp,
                           !.finStaging = inv[p].finStaging])

\* What the handler does with a feed response of non-success status st.
OnErrorBody(v, r, st) ==
    IF v = "single"
    THEN [r EXCEPT !.pc = "idle", !.exit = "upstream", !.http = st]
    ELSE [r EXCEPT !.tickets = <<>>, !.newCp = Undef, !.eos = FALSE,
                   !.pc = "enrich"]

\* One page is fetched at the cursor. The feed answers with a page, with a
\* non-success JSON body, or the call rejects.
Fetch(p) ==
    /\ inv[p].pc = "fetch"
    /\ \/ /\ inv[p].cursor # Undef
          /\ LET pg == FetchPage(inv[p].cursor)
             IN  Set(p, [inv[p] EXCEPT
                           !.tickets = pg.tickets,
                           !.newCp = pg.end_time,
                           !.eos = pg.eos,
                           !.pages = @ + 1,
                           !.fetched = @ + Len(pg.tickets),
                           !.pageCp = cpStore,
                           !.pc = "enrich"])
          /\ UNCHANGED faults
       \/ /\ inv[p].cursor # Undef => faults < MaxFaults
          /\ faults' = IF inv[p].cursor # Undef THEN faults + 1 ELSE faults
          /\ \E st \in (IF variant = "single" THEN ErrStatuses
                         ELSE {CHOOSE x \in ErrStatuses : TRUE}) :
                Set(p, OnErrorBody(variant,
                                   [inv[p] EXCEPT !.failedAt = "upstream",
                                                  !.pages = @ + 1,
                                                  !.pageCp = cpStore],
                                   st))
       \/ Throw(p, "fetch")
    /\ UNCHANGED <<variant, feed, cpStore, cpOwner, staging, logs, reports, mails,
                   appended, everAppended, runs>>

\* The page's tickets are filtered by the window and enriched into rows.
Enrich(p) ==
    /\ inv[p].pc = "enrich"
    /\ LET rs == AdmittedRows(variant, inv[p], inv[p].tickets)
       IN  \/ /\ Set(p, [inv[p] EXCEPT
                            !.rows = rs,
                            !.lastId = LastAdmitted(variant, inv[p],
                                                    inv[p].tickets, @),
                            !.raw = IF variant = "single"
                                    THEN staging \o rs ELSE @,
                            !.pc = "append"])
              /\ UNCHANGED faults
           \/ /\ variant # "single"
              /\ rs # <<>>
              /\ Throw(p, "enrich")
    /\ UNCHANGED <<variant, feed, cpStore, cpOwner, staging, logs, reports, mails,
                   appended, everAppended, runs>>

\* Mutant: the rows are written over the region instead of appended to it.
StagingAfterOverwrite(v, old, r) == r.rows

\* The staging store after the page's rows are persisted.
StagingAfter(v, old, r) == IF v = "single" THEN r.raw ELSE old \o r.rows

\* Mutant: the rejected append is swallowed and the loop goes on to commit.
AppendFailedSwallowed(p) ==
    /\ faults < MaxFaults
    /\ faults' = faults + 1
    /\ Set(p, [inv[p] EXCEPT !.pc = "commit", !.failedAt = "append"])

\* Where a rejected staging append leaves the invocation.
AppendFailed(p) == Throw(p, "append")

AppendRows(p) ==
    /\ inv[p].pc = "append"
    /\ IF variant # "single" /\ inv[p].rows = <<>>
       THEN /\ Set(p, [inv[p] EXCEPT !.pc = "commit"])
            /\ UNCHANGED <<staging, appended, everAppended, faults>>
       ELSE \/ /\ staging' = StagingAfter(variant, staging, inv[p])
               /\ appended' = appended \o inv[p].rows
               /\ everAppended' = everAppended \o inv[p].rows
               /\ Set(p, [inv[p] EXCEPT !.saved = @ + Len(inv[p].rows),
                                        !.pc = "commit"])
               /\ UNCHANGED faults
            \/ AppendFailed(p) /\ UNCHANGED <<staging, appended, everAppended>>
    /\ UNCHANGED <<variant, feed, cpStore, cpOwner, logs, reports, mails, runs>>

\* Mutant: the write of the checkpoint row is not performed.
StoreAfterWriteDropped(old, c) == old

\* The checkpoint store after value c is written to it: the sheet skips a
\* null cell, so writing undefined keeps B2 as it was.
StoreAfterWrite(old, c) ==
    IF c = Undef THEN (IF old = Absent THEN KeyOnly ELSE old) ELSE c

\* Mutant: the created_at of the last admitted ticket is committed.
CommitValueLastCreated(r) ==
    IF r.rows = <<>> THEN r.newCp ELSE r.rows[Len(r.rows)].created

\* Mutant: a page without admitted rows commits no cursor.
CommitValueIfRows(r) == IF r.rows = <<>> THEN Undef ELSE r.newCp

\* The value committed for a page: the response's end_time.
CommitValue(r) == r.newCp

Commit(p) ==
    /\ inv[p].pc = "commit"
    /\ \/ /\ cpStore' = StoreAfterWrite(cpStore, CommitValue(inv[p]))
          /\ cpOwner' = IF CommitValue(inv[p]) = Undef THEN cpOwner
                        ELSE inv[p].monthStr
          /\ Set(p, [inv[p] EXCEPT
                        !.cursor = IF variant \in {"export", "batch"}
                                   THEN inv[p].newCp ELSE @,
                        !.pc = IF HasLog(variant) THEN "log" ELSE "decide"])
          /\ UNCHANGED faults
       \/ Throw(p, "commit") /\ UNCHANGED <<cpStore, cpOwner>>
    /\ UNCHANGED <<variant, feed, staging, logs, reports, mails, appended, everAppended,
                   runs>>

\* Mutant: the fetched and saved counts change places in the entry.
LogEntryCountsSwapped(status, cp, fetched, saved, last) ==
    [status |-> status, cp |-> cp, fetched |-> saved, saved |-> fetched,
     last |-> last]

LogEntry(status, cp, fetched, saved, last) ==
    [status |-> status, cp |-> cp, fetched |-> fetched, saved |-> saved,
     last |-> last]

LogRunning(p) ==
    /\ inv[p].pc = "log"
    /\ \/ /\ logs' = Append(logs, LogEntry("Running", inv[p].cursor,
                                            inv[p].fetched, inv[p].saved,
                                            inv[p].lastId))
          /\ Set(p, [inv[p] EXCEPT !.pc = "decide"])
          /\ UNCHANGED faults
       \/ Throw(p, "log") /\ UNCHANGED logs
    /\ UNCHANGED <<variant, feed, cpStore, cpOwner, staging, reports, mails,
                   appended, everAppended, runs>>

\* ------------------------------------------------------ completion check
\* export.js: the loop breaks on end_of_stream or cursor >= end, ends when
\* next_page is missing, and finalization follows the loop unconditionally.
AfterPageExport(r) ==
    IF r.eos \/ GE(r.cursor, r.endTimestamp) THEN "create"
    ELSE IF r.newCp = Undef THEN "create"
    ELSE "fetch"

\* batch run(): the same loop; finalization only if cursor >= end.
AfterPageBatch(r) ==
    IF r.eos \/ GE(r.cursor, r.endTimestamp) \/ r.newCp = Undef
    THEN (IF GE(r.cursor, r.endTimestamp) THEN "create" ELSE "return")
    ELSE "fetch"

\* auto-chaining handler: finalize if newCheckpoint >= end, else re-chain.
AfterPageChain(r) ==
    IF GE(r.newCp, r.endTimestamp) THEN "create" ELSE "chain"

\* single-shot handler: finalize on end_of_stream, else answer 200.
AfterPageSingle(r) == IF ~r.eos THEN "return" ELSE "create"

AfterPage(v, r) ==
    CASE v = "export" -> AfterPageExport(r)
      [] v = "batch"  -> AfterPageBatch(r)
      [] v = "chain"  -> AfterPageChain(r)
      [] v = "single" -> AfterPageSingle(r)

Decide(p) ==
    /\ inv[p].pc = "decide"
    /\ LET to == AfterPage(variant, inv[p])
       IN  IF to = "return"
           THEN Finish(p, "ok")
           ELSE Set(p, [inv[p] EXCEPT !.pc = to,
                                      !.finCp = cpStore,
                                      !.finStaging = staging])
    /\ UNCHANGED <<variant, feed, cpStore, cpOwner, staging, logs, reports, mails,
                   appended, everAppended, runs, faults>>

\* auto-chaining handler: the handler requests its own URL for the same
\* month, which is the next invocation; nothing but its answer is left of
\* the requesting one.
Chain(p) ==
    /\ inv[p].pc = "chain"
    /\ \/ /\ Set(p, Entered(inv[p].monthStr, inv[p].failedAt))
          /\ UNCHANGED faults
       \/ Throw(p, "chain")
    /\ UNCHANGED <<variant, feed, cpStore, cpOwner, staging, logs, reports, mails,
                   appended, everAppended, runs>>

\* ------------------------------------------------------------ finalization
\* Mutant: the header row is left out of the values written.
ReportContentNoHeader(rows) == rows

\* The values written to the report: the header row, then the rows.
ReportContent(rows) == <<Header>> \o rows

\* drive.files.create: a new, empty spreadsheet. The single-shot handler
\* writes the workbook of the combined tickets in one call.
NewReport(v, r) ==
    IF v = "single"
    THEN [content |-> ReportContent(r.raw), shared |-> FALSE]
    ELSE [content |-> <<>>, shared |-> FALSE]

CreateFile(p) ==
    /\ inv[p].pc = "create"
    /\ \/ /\ reports' = Append(reports, NewReport(variant, inv[p]))
          /\ Set(p, [inv[p] EXCEPT
                        !.exportId = Len(reports) + 1,
                        !.pc = IF variant = "single" THEN "mail"
                               ELSE "readRaw"])
          /\ UNCHANGED faults
       \/ Throw(p, "create") /\ UNCHANGED reports
    /\ UNCHANGED <<variant, feed, cpStore, cpOwner, staging, logs, mails, appended, everAppended,
                   runs>>

ReadRaw(p) ==
    /\ inv[p].pc = "readRaw"
    /\ \/ /\ Set(p, [inv[p] EXCEPT !.raw = staging, !.pc = "writeReport"])
          /\ UNCHANGED faults
       \/ Throw(p, "readRaw")
    /\ UNCHANGED <<variant, feed, cpStore, cpOwner, staging, logs, reports, mails,
                   appended, everAppended, runs>>

WriteReport(p) ==
    /\ inv[p].pc = "writeReport"
    /\ \/ /\ reports' = [reports EXCEPT ![inv[p].exportId].content =
                                          ReportContent(inv[p].raw)]
          /\ Set(p, [inv[p] EXCEPT !.pc = "share"])
          /\ UNCHANGED faults
       \/ Throw(p, "writeReport") /\ UNCHANGED reports
    /\ UNCHANGED <<variant, feed, cpStore, cpOwner, staging, logs, mails, appended, everAppended,
                   runs>>

Share(p) ==
    /\ inv[p].pc = "share"
    /\ \/ /\ reports' = [reports EXCEPT ![inv[p].exportId].shared = TRUE]
          /\ Set(p, [inv[p] EXCEPT !.pc = "mail"])
          /\ UNCHANGED faults
       \/ Throw(p, "share") /\ UNCHANGED reports
    /\ UNCHANGED <<variant, feed, cpStore, cpOwner, staging, logs, mails, appended, everAppended,
                   runs>>

SendMail(p) ==
    /\ inv[p].pc = "mail"
    /\ \/ /\ mails' = mails + 1
          /\ Set(p, [inv[p] EXCEPT !.pc = "clearState"])
          /\ UNCHANGED faults
       \/ Throw(p, "mail") /\ UNCHANGED mails
    /\ UNCHANGED <<variant, feed, cpStore, cpOwner, staging, logs, reports, appended, everAppended,
                   runs>>

ClearState(p) ==
    /\ inv[p].pc = "clearState"
    /\ \/ /\ cpStore' = Absent
          /\ cpOwner' = NoMonth
          /\ Set(p, [inv[p] EXCEPT !.pc = "clearRaw"])
          /\ UNCHANGED faults
       \/ Throw(p, "clearState") /\ UNCHANGED <<cpStore, cpOwner>>
    /\ UNCHANGED <<variant, feed, staging, logs, reports, mails, appended, everAppended,
                   runs>>

ClearRaw(p) ==
    /\ inv[p].pc = "clearRaw"
    /\ \/ /\ staging' = <<>>
          /\ appended' = <<>>
          /\ everAppended' = <<>>
          /\ IF HasLog(variant)
             THEN Set(p, [inv[p] EXCEPT !.pc = "logDone"])
             ELSE Finish(p, "ok")
          /\ UNCHANGED faults
       \/ Throw(p, "clearRaw") /\ UNCHANGED <<staging, appended, everAppended>>
    /\ UNCHANGED <<variant, feed, cpStore, cpOwner, logs, reports, mails, runs>>

LogDone(p) ==
    /\ inv[p].pc = "logDone"
    /\ \/ /\ logs' = Append(logs, LogEntry("Export Complete", Undef,
                                            inv[p].fetched, inv[p].saved, 0))
          /\ Finish(p, "ok")
          /\ UNCHANGED faults
       \/ Throw(p, "logDone") /\ UNCHANGED logs
    /\ UNCHANGED <<variant, feed, cpStore, cpOwner, staging, reports, mails,
                   appended, everAppended, runs>>

\* ---------------------------------------------------------- error handling
\* Mutant: the error handler also clears the checkpoint row.
CatchAndClear(p) ==
    /\ inv[p].pc = "catch"
    /\ cpStore' = Absent
    /\ cpOwner' = NoMonth
    /\ Finish(p, IF HasLog(variant) THEN "fail" ELSE "http500")
    /\ UNCHANGED <<variant, feed, staging, logs, reports, mails, appended,
                   everAppended, runs, faults>>

\* run().catch logs one ERROR row and exits 1 (the log call may itself
\* reject, or the process may die first); the handlers' catch answers 500.
Catch(p) ==
    /\ inv[p].pc = "catch"
    /\ IF HasLog(variant)
       THEN \/ /\ logs' = Append(logs, LogEntry("ERROR", Undef, 0, 0, 0))
               /\ Finish(p, "fail")
               /\ UNCHANGED faults
            \/ /\ Finish(p, "fail")
               /\ UNCHANGED <<logs, faults>>
       ELSE /\ Finish(p, "http500")
            /\ UNCHANGED <<logs, faults>>
    /\ UNCHANGED <<variant, feed, cpStore, cpOwner, staging, reports, mails,
                   appended, everAppended, runs>>

Next ==
    \E p \in {1} :
        \/ Start(p)
        \/ MissingCredentials(p)
        \/ ReadState(p)
        \/ ResetLogs(p)
        \/ ResetRaw(p)
        \/ Fetch(p)
        \/ Enrich(p)
        \/ AppendRows(p)
        \/ Commit(p)
        \/ LogRunning(p)
        \/ Decide(p)
        \/ Chain(p)
        \/ CreateFile(p)
        \/ ReadRaw(p)
        \/ WriteReport(p)
        \/ Share(p)
        \/ SendMail(p)
        \/ ClearState(p)
        \/ ClearRaw(p)
        \/ LogDone(p)
        \/ Catch(p)

Spec == Init /\ [][Next]_vars

\* The same controller invoked for any month, one invocation after another.
NextMonthly ==
    \E p \in {1} :
        \/ StartMonth(p)
        \/ MissingCredentials(p)
        \/ ReadState(p)
        \/ ResetLogs(p)
        \/ ResetRaw(p)
        \/ Fetch(p)
        \/ Enrich(p)
        \/ AppendRows(p)
        \/ Commit(p)
        \/ LogRunning(p)
        \/ Decide(p)
        \/ Chain(p)
        \/ CreateFile(p)
        \/ ReadRaw(p)
        \/ WriteReport(p)
        \/ Share(p)
        \/ SendMail(p)
        \/ ClearState(p)
        \/ ClearRaw(p)
        \/ LogDone(p)
        \/ Catch(p)

SpecMonth == Init /\ [][NextMonthly]_vars

\* Every step that can be taken is taken in the end: the process runs, the
\* scheduler fires, the awaited calls return.
SpecFair == Init /\ [][Next]_vars /\ WF_vars(Next)

\* Feeds whose tickets are all created at the window start and all carry
\* the comment list cs; the feed ends at the window end.
DigestFeed(cs) ==
    [i \in 1..FeedLen |->
        [id |-> i, created |-> WStart, pos |-> WEnd - FeedLen + i,
         requester |-> RequesterOf(i), comments |-> cs]]

\* Every variant over every comment list, with one invocation and one
\* failure left: the digest does not depend on what ran before.
InitDigest ==
    /\ variant \in Variants
    /\ feed \in {DigestFeed(cs) : cs \in CommentLists}
    /\ cpStore = Absent
    /\ cpOwner = NoMonth
    /\ staging = <<>>
    /\ logs = <<>>
    /\ reports = <<>>
    /\ mails = 0
    /\ inv = [p \in Procs |-> IdleInv]
    /\ appended = <<>>
    /\ everAppended = <<>>
    /\ runs = MaxRuns - 1
    /\ faults = MaxFaults - 1

SpecDigest == InitDigest /\ [][Next]_vars

\* Two invocations of the controller in flight at once (two scheduler runs
\* of export.js, two requests to the self-chaining handler): each awaited
\* call of either one is a step, taken in any order. The feed is one whose
\* first page is admitted whole and whose last page ends at the window end;
\* two invocations and one failure are left.
InitConc ==
    /\ variant \in {"export", "chain"}
    /\ feed = DigestFeed(StockComments)
    /\ cpStore = Absent
    /\ cpOwner = NoMonth
    /\ staging = <<>>
    /\ logs = <<>>
    /\ reports = <<>>
    /\ mails = 0
    /\ inv = [p \in Procs |-> IdleInv]
    /\ appended = <<>>
    /\ everAppended = <<>>
    /\ runs = MaxRuns - 2
    /\ faults = MaxFaults - 1

NextConc ==
    \E p \in Procs :
        \/ Start(p)
        \/ ReadState(p)
        \/ Fetch(p)
        \/ Enrich(p)
        \/ AppendRows(p)
        \/ Commit(p)
        \/ LogRunning(p)
        \/ Decide(p)
        \/ Chain(p)
        \/ CreateFile(p)
        \/ ReadRaw(p)
        \/ WriteReport(p)
        \/ Share(p)
        \/ SendMail(p)
        \/ ClearState(p)
        \/ ClearRaw(p)
        \/ LogDone(p)
        \/ Catch(p)

SpecConc == InitConc /\ [][NextConc]_vars

\* ------------------------------------------------------------------ claims
IsCursor(c) == c >= 0

FinPcs == {"create", "readRaw", "writeReport", "share", "mail",
           "clearState", "clearRaw", "logDone"}

Staged(id) == \E i \in 1..Len(staging) : staging[i].id = id

\* C1: in every reachable state every row in staging has a created_at
\* inside the window: WStart <= created_at < WEnd.
C1_StagingInWindow ==
    \A i \in 1..Len(staging) :
        staging[i].created >= WStart /\ staging[i].created < WEnd

\* C2: each in-window record is appended to staging exactly once, whatever
\* failed before: no two staging rows share a record id, and every in-window
\* record at or below the committed checkpoint is staged.
C2_ExactlyOnce ==
    /\ \A i, j \in 1..Len(staging) :
          i # j => staging[i].id # staging[j].id
    /\ IsCursor(cpStore) =>
          \A k \in 1..FeedLen :
              (feed[k].pos <= cpStore /\ InWindow(DefaultWin, feed[k]))
                  => Staged(feed[k].id)

\* C3: no step replaces a committed cursor by a smaller cursor.
C3_CheckpointMonotone ==
    [][(IsCursor(cpStore) /\ IsCursor(cpStore')) => cpStore' >= cpStore]_vars

\* C3 witness: a commit has replaced a committed cursor by a larger one.
C3_Witness ==
    \E p \in Procs :
        /\ inv[p].pc \in {"log", "decide"}
        /\ IsCursor(inv[p].pageCp)
        /\ IsCursor(cpStore)
        /\ cpStore > inv[p].pageCp

\* C4: whenever the committed checkpoint is a cursor, the rows of every
\* admitted record of the pages it covers are already in staging.
C4_CommitAfterAppend ==
    IsCursor(cpStore) =>
        \A k \in 1..FeedLen :
            (feed[k].pos <= cpStore /\ Admit(variant, DefaultWin, feed[k]))
                => Staged(feed[k].id)

\* C4 witness: a checkpoint covering two pages with admitted records on both
\* has been committed.
C4_Witness ==
    /\ variant # "single"
    /\ IsCursor(cpStore)
    /\ feed[FeedLen].pos <= cpStore
    /\ InWindow(DefaultWin, feed[1])
    /\ InWindow(DefaultWin, feed[FeedLen])

\* C5: after a rejected staging append the invocation is in its error
\* handler or has ended in failure, and the committed checkpoint is the one
\* that was committed when the page was fetched.
C5_AppendFailureKeepsCheckpoint ==
    \A p \in Procs :
        inv[p].failedAt = "append" =>
            /\ inv[p].pc \in {"catch", "idle"}
            /\ inv[p].pc = "idle" => inv[p].exit \in {"fail", "http500"}
            /\ cpStore = inv[p].pageCp

\* C5 witness: an invocation whose append was rejected has exited with
\* status 1.
C5_Witness ==
    \E p \in Procs :
        /\ inv[p].failedAt = "append"
        /\ inv[p].pc = "idle"
        /\ inv[p].exit = "fail"

FinFailSteps == {"create", "readRaw", "writeReport", "share", "mail"}

\* C6: after artifact creation, the copy of the staging rows, the access
\* grant or the notification has failed, the checkpoint row and the staging
\* rows are what they were when finalization was entered, the checkpoint row
\* is not empty, and the next invocation starts from that checkpoint.
C6_FinalizationFailureKeepsState ==
    \A p \in Procs :
        /\ inv[p].failedAt \in FinFailSteps =>
              /\ cpStore = inv[p].finCp
              /\ cpStore # Absent
              /\ staging = inv[p].finStaging
        /\ ( /\ inv[p].prevFail \in FinFailSteps
             /\ IsCursor(inv[p].startCp)
             /\ inv[p].pc \notin {"idle", "read"}
             /\ inv[p].failedAt # "read" )
              => inv[p].seed = inv[p].startCp

\* C6 witness: the notification failed in one invocation and the next one
\* has read its starting cursor.
C6_Witness ==
    \E p \in Procs :
        /\ inv[p].prevFail = "mail"
        /\ inv[p].pc = "fetch"
        /\ IsCursor(inv[p].seed)
        /\ staging # <<>>

\* C7: finalization is entered only when the window is fully drained; stated
\* here by its weakest clause, for the variants with a window end and for
\* invocations whose feed responses all succeeded: finalization is never
\* entered while the cursor is still below the window end.
C7_FinalizeOnlyWhenDrained ==
    \A p \in Procs :
        (inv[p].pc \in FinPcs /\ variant # "single"
            /\ inv[p].failedAt # "upstream")
        => GE(inv[p].newCp, WEnd)

\* C8: in the variants with a window end, an invocation that starts with a
\* committed checkpoint at or past the window end appends no rows and takes
\* only finalization steps.
C8_IdempotentReinvoke ==
    \A p \in Procs :
        (IsCursor(inv[p].startCp) /\ inv[p].startCp >= WEnd
            /\ variant # "single" /\ inv[p].pc # "idle")
        => /\ inv[p].pc \in ({"read", "catch"} \cup FinPcs)
           /\ inv[p].saved = 0

AfterHeader(content) == IF content = <<>> THEN <<>> ELSE Tail(content)

\* C9 (as claimed): once the report is written, shared and notified, its
\* rows after the header are all the rows ever appended to staging for the
\* window, in append order.
C9_ReportIsEverythingAppended ==
    \A p \in Procs :
        inv[p].pc = "clearRaw" =>
            AfterHeader(reports[inv[p].exportId].content) = everAppended

\* C9 (amended): once the report is written, shared and notified, its rows
\* after the header are the rows appended to staging since staging was last
\* cleared (by a fresh-run reset or by a finished finalization), in append
\* order.
C9_ReportIsStagingSinceReset ==
    \A p \in Procs :
        inv[p].pc = "clearRaw" =>
            AfterHeader(reports[inv[p].exportId].content) = appended

\* C9 witness: a report is complete after a fresh-run reset dropped rows that
\* had been appended.
C9_Witness ==
    \E p \in Procs :
        /\ inv[p].pc = "clearRaw"
        /\ appended # <<>>
        /\ everAppended # appended

\* C10: at most one report artifact is ever created for the window.
C10_AtMostOneReport == Len(reports) <= 1

\* C11: in the variants that take a month, an invocation for one month never takes as its starting cursor a
\* checkpoint that an invocation for a different month committed.
C11_CheckpointScopedByWindow ==
    \A p \in Procs :
        ( /\ variant # "single"
          /\ inv[p].pc \notin {"idle", "read"}
          /\ inv[p].failedAt # "read"
          /\ IsCursor(inv[p].startCp)
          /\ inv[p].startOwner # inv[p].monthStr )
        => inv[p].seed # inv[p].startCp

\* C12: in every reachable state the cursor an invocation works with and the
\* committed checkpoint it runs over are at or past the start of its window;
\* stated for the variants that take a month, for well-formed months and for
\* cursors that are numbers.
C12_CursorAtLeastWindowStart ==
    \A p \in Procs :
        ( /\ variant # "single"
          /\ inv[p].pc \notin {"idle", "read"}
          /\ inv[p].startTimestamp # Undef )
        => /\ inv[p].cursor # Undef
                => inv[p].cursor >= inv[p].startTimestamp
           /\ IsCursor(cpStore) => cpStore >= inv[p].startTimestamp

\* C13: once an invocation has read the state, its starting cursor is the
\* committed checkpoint if there is one and the window start if there is
\* none, and it asks for its first page with exactly that cursor.
C13_SeedIsCheckpointOrWindowStart ==
    \A p \in Procs :
        (inv[p].pc \notin {"idle", "read"} /\ inv[p].failedAt # "read")
        => /\ inv[p].seed = IF IsCursor(inv[p].startCp) THEN inv[p].startCp
                            ELSE DefaultWin.startTimestamp
           /\ (inv[p].pc = "fetch" /\ inv[p].pages = 0)
                => inv[p].cursor = inv[p].seed

\* C14: in the scheduled runs, an invocation that found no committed
\* checkpoint asks for its first page with the staging rows reset to empty
\* (the claim's weaker half; it asks the same of the audit log).
C14_FreshRunResets ==
    \A p \in Procs :
        ( /\ HasLog(variant)
          /\ inv[p].pc = "fetch"
          /\ inv[p].pages = 0
          /\ inv[p].startCp = Absent )
        => staging = <<>>

\* C14 restricted to the batch run, whose code holds the reset.
C14_BatchFreshRunResets ==
    \A p \in Procs :
        ( /\ variant = "batch"
          /\ inv[p].pc = "fetch"
          /\ inv[p].pages = 0
          /\ inv[p].startCp = Absent )
        => staging = <<>> /\ logs = <<>>

\* C15: after a non-success feed response the invocation is in its error
\* path or has ended reporting the failure, and the committed checkpoint is
\* the one that was committed when the page was asked for.
C15_UpstreamErrorIsFatal ==
    \A p \in Procs :
        inv[p].failedAt = "upstream" =>
            /\ inv[p].pc \in {"catch", "idle"}
            /\ inv[p].pc = "idle"
                  => inv[p].exit \in {"fail", "http500", "upstream"}
            /\ cpStore = inv[p].pageCp

\* C16: an invocation that has ended in failure (exit status 1 or HTTP 500)
\* has left an "ERROR" entry as the last row of the audit log.
C16_FailureIsLogged ==
    \A p \in Procs :
        (inv[p].pc = "idle" /\ inv[p].exit \in {"fail", "http500"})
        => /\ logs # <<>>
           /\ logs[Len(logs)].status = "ERROR"

\* C17: an invocation for a month identifier that is not a month makes no
\* request to the feed and leaves the committed checkpoint as it found it.
C17_MalformedMonthRejected ==
    \A p \in Procs :
        (variant # "single" /\ inv[p].monthStr = BadMonth)
        => /\ inv[p].pages = 0
           /\ cpStore = inv[p].startCp

\* The ticket a staging row was made from.
TicketOf(row) == feed[row.id]

\* d is made of exactly the public comments of cs, in their order, each
\* with its body and the label its author earns.
IsDigestOf(d, cs, requester) ==
    LET pub == {i \in 1..Len(cs) : cs[i].public}
    IN  /\ Len(d) = Cardinality(pub)
        /\ \E f \in [1..Len(d) -> 1..Len(cs)] :
              /\ \A j, k \in 1..Len(d) : j < k => f[j] < f[k]
              /\ {f[k] : k \in 1..Len(d)} = pub
              /\ \A k \in 1..Len(d) :
                    /\ d[k].body = cs[f[k]].body
                    /\ d[k].role = IF cs[f[k]].author = requester
                                   THEN "Requester" ELSE "Agent"

\* C18: in the variants that build a digest, the digest of every staged row
\* is made of exactly the public comments of its ticket, in upstream order,
\* labelled "Requester" when the author is the ticket's requester and
\* "Agent" otherwise; in the single-shot handler no comment reaches a row.
C18_DigestIsPublicCommentsLabelled ==
    \A i \in 1..Len(staging) :
        IF variant = "single"
        THEN staging[i].comments = <<>>
        ELSE IsDigestOf(staging[i].comments,
                        TicketOf(staging[i]).comments,
                        TicketOf(staging[i]).requester)

\* C18 witness: a row is staged for a ticket whose two comments are both
\* public, the first by its requester and the second by someone else, and
\* a row for a ticket with a private comment.
C18_Witness ==
    /\ \E i \in 1..Len(staging) :
          LET t == TicketOf(staging[i])
          IN  /\ Len(t.comments) = 2
              /\ t.comments[1].public /\ t.comments[2].public
              /\ t.comments[1].author = t.requester
              /\ t.comments[2].author # t.requester
              /\ staging[i].comments[1].role = "Requester"
              /\ staging[i].comments[2].role = "Agent"
    /\ variant = "export"

\* C19: a handler that has answered has answered 200 unless it ended on an
\* unhandled error, and 500 exactly then.
C19_HttpStatus ==
    \A p \in Procs :
        (IsHandler(variant) /\ inv[p].pc = "idle" /\ inv[p].exit # "none")
        => inv[p].http = IF inv[p].exit = "http500" THEN 500 ELSE 200

\* C20: every export stops fetching in the end: from some point on no
\* invocation is about to request a page of the feed.
C20_EventuallyStopsFetching ==
    <>[](\A p \in Procs : inv[p].pc # "fetch")

\* C20, its first half: the controller goes on to another page (by looping
\* or by chaining) only when the page it got was not the end of the feed.
C20_FetchesOnlyBeforeEndOfFeed ==
    \A p \in Procs :
        ((inv[p].pc = "fetch" /\ inv[p].pages > 0) \/ inv[p].pc = "chain")
        => ~inv[p].eos

\* C21: in the variants that filter, once a page has been filtered its rows
\* are those of exactly the records with WStart <= created_at < WEnd, and
\* every such record at or below a committed checkpoint is in staging.
C21_AdmittedIffInWindow ==
    variant # "single" =>
        /\ \A p \in Procs :
              inv[p].pc \in {"append", "commit"} =>
                  \A k \in 1..Len(inv[p].tickets) :
                      LET t == inv[p].tickets[k]
                      IN  (\E j \in 1..Len(inv[p].rows) :
                              inv[p].rows[j].id = t.id)
                          <=> (WStart <= t.created /\ t.created < WEnd)
        /\ IsCursor(cpStore) =>
              \A k \in 1..FeedLen :
                  ( /\ feed[k].pos <= cpStore
                    /\ WStart <= feed[k].created
                    /\ feed[k].created < WEnd )
                  => Staged(feed[k].id)

\* C21 witness: records created at the window start and one second before
\* the window end are staged, and the page being appended held a record
\* created at the window end, for which no row was built.
C21_Witness ==
    /\ variant = "export"
    /\ \E i \in 1..Len(staging) : staging[i].created = WStart
    /\ \E i \in 1..Len(staging) : staging[i].created = WEnd - 1
    /\ \E p \in Procs :
          /\ inv[p].pc = "append"
          /\ inv[p].rows = <<>>
          /\ \E k \in 1..Len(inv[p].tickets) :
                inv[p].tickets[k].created = WEnd

\* C22: for a page of a successful feed response in which no record is
\* admitted, the append step leaves staging as it is and the commit step,
\* when its write succeeds, stores the page's new cursor as the checkpoint.
C22_EmptyPageStillCommits ==
    [][\A p \in Procs :
          (inv[p].rows = <<>> /\ inv[p].failedAt # "upstream")
          => /\ inv[p].pc = "append" => staging' = staging
             /\ (inv[p].pc = "commit" /\ inv'[p].pc \notin {"commit", "catch"})
                   => cpStore' = inv[p].newCp]_vars

\* C22 witness: with rows in staging, a page that held a record and admitted
\* none has moved the committed checkpoint to its new cursor.
C22_Witness ==
    \E p \in Procs :
        /\ inv[p].pc \in {"log", "decide"}
        /\ inv[p].tickets # <<>>
        /\ inv[p].rows = <<>>
        /\ staging # <<>>
        /\ cpStore = inv[p].newCp
        /\ inv[p].pageCp # cpStore

\* The last n rows of a sequence (all of it when it is shorter).
LastRows(rows, n) ==
    IF n >= Len(rows) THEN rows
    ELSE SubSeq(rows, Len(rows) - n + 1, Len(rows))

\* C23: in the self-chaining handler, when the next invocation is about to
\* be triggered, and when the trigger call has failed, the checkpoint store
\* already holds the cursor of the page just processed and the page's rows
\* are the last rows of staging.
C23_CommitBeforeChain ==
    variant = "chain" =>
        \A p \in Procs :
            (\/ inv[p].pc = "chain"
             \/ inv[p].pc = "catch" /\ inv[p].failedAt = "chain")
            => /\ IsCursor(inv[p].newCp) => cpStore = inv[p].newCp
               /\ LastRows(staging, Len(inv[p].rows)) = inv[p].rows

\* C23 witness: the trigger call of the self-chaining handler has failed
\* after a page with admitted rows; the checkpoint has moved to the page's
\* cursor and the rows are staged.
C23_Witness ==
    /\ variant = "chain"
    /\ \E p \in Procs :
          /\ inv[p].pc = "catch"
          /\ inv[p].failedAt = "chain"
          /\ inv[p].rows # <<>>
          /\ cpStore = inv[p].newCp
          /\ inv[p].pageCp # cpStore
          /\ LastRows(staging, Len(inv[p].rows)) = inv[p].rows

\* The number of rows of record id in a sequence of rows.
Copies(rows, id) == Cardinality({i \in 1..Len(rows) : rows[i].id = id})

\* Both invocations have read the same cursor, the feed has answered each
\* with a page, and both are past the append of that page.
BothAppendedFirstPage(p, q) ==
    /\ p # q
    /\ inv[p].pc \in {"commit", "log", "decide"}
    /\ inv[q].pc \in {"commit", "log", "decide"}
    /\ inv[p].pages = 1
    /\ inv[q].pages = 1
    /\ inv[p].seed = inv[q].seed
    /\ inv[p].failedAt # "upstream"
    /\ inv[q].failedAt # "upstream"

\* C24: when two invocations in flight at once have read the same cursor
\* and each has gone past the append of the page fetched from it, they hold
\* the same page and every admitted row of it has been appended to staging
\* at least twice: neither waited for, or noticed, the other.
C24_BothAppendSamePage ==
    \A p, q \in Procs :
        BothAppendedFirstPage(p, q)
        => /\ inv[p].tickets = inv[q].tickets
           /\ \A j \in 1..Len(inv[p].rows) :
                 Copies(everAppended, inv[p].rows[j].id) >= 2

\* C24 witness: two invocations in flight that read the same cursor have
\* both appended the same page, and staging holds a record twice.
C24_Witness ==
    \E p, q \in Procs :
        /\ BothAppendedFirstPage(p, q)
        /\ inv[p].rows # <<>>
        /\ inv[p].rows = inv[q].rows
        /\ \A j \in 1..Len(inv[p].rows) :
              Copies(staging, inv[p].rows[j].id) = 2

\* The entry a page of invocation r must leave in the audit log, given the
\* entry before it: the committed checkpoint, the counts of the run so far,
\* the id of the last admitted record of the run (0 while there is none).
IsPageEntry(e, r, before) ==
    LET first == r.pages = 1
        prev  == IF first \/ before = <<>>
                 THEN LogEntry("Running", Undef, 0, 0, 0)
                 ELSE before[Len(before)]
    IN  /\ e.status = "Running"
        /\ r.failedAt # "upstream" => e.cp = cpStore /\ e.cp = r.newCp
        /\ ~first => before # <<>> /\ prev.status = "Running"
        /\ e.fetched = prev.fetched + Len(r.tickets)
        /\ e.saved = prev.saved + Len(r.rows)
        /\ e.saved <= e.fetched
        /\ e.last = IF r.rows # <<>> THEN r.rows[Len(r.rows)].id ELSE prev.last

\* C25: in the runs that keep an audit log, a page reaches the completion
\* test only through the logging step, which comes after the checkpoint
\* commit; that step appends exactly one entry, whose cursor is the
\* checkpoint just committed, whose counts are those of the entry before it
\* in the run plus the page's (so saved <= fetched), and whose last-record
\* id is that of the most recently admitted record; no other step appends a
\* "Running" entry.
C25_OneLogEntryPerPage ==
    [][/\ \A p \in Procs :
             /\ (HasLog(variant) /\ inv[p].pc # "decide"
                                 /\ inv'[p].pc = "decide")
                   => inv[p].pc = "log"
             /\ (inv[p].pc = "log" /\ inv'[p].pc = "decide")
                   => /\ Len(logs') = Len(logs) + 1
                      /\ SubSeq(logs', 1, Len(logs)) = logs
                      /\ IsPageEntry(logs'[Len(logs')], inv[p], logs)
       /\ (Len(logs') > Len(logs) /\ logs'[Len(logs')].status = "Running")
             => \E p \in Procs : inv[p].pc = "log" /\ inv'[p].pc = "decide"
      ]_vars

\* C25 witness: the second page of a run has been logged; the entry carries
\* the committed checkpoint, counts above those of the first page's entry
\* with fewer rows saved than fetched, and the id of an admitted record.
C25_Witness ==
    \E p \in Procs :
        /\ inv[p].pc = "decide"
        /\ inv[p].pages = 2
        /\ Len(logs) >= 2
        /\ LET e == logs[Len(logs)]
               b == logs[Len(logs) - 1]
           IN  /\ e.status = "Running" /\ b.status = "Running"
               /\ e.cp = cpStore
               /\ e.fetched > b.fetched
               /\ e.saved > b.saved
               /\ e.saved < e.fetched
               /\ e.last = inv[p].lastId
               /\ e.last # 0

====
